---- MODULE Spec2Model ----
(***************************************************************************)
(* ZK-Stats plug-in for The Archive (com.will.stats.thearchiveplugin).     *)
(*                                                                         *)
(* main.js is one synchronous script: it prompts for a title, samples the  *)
(* clock, aggregates statistics over input.notes.all, renders the monthly  *)
(* table, composes the note body and hands it to the host (clipboard and   *)
(* output file).                                                           *)
(*                                                                         *)
(* A JavaScript string is modelled as a sequence of one-character strings, *)
(* so that slicing, padding, splitting and regular-expression matching are *)
(* computed character by character as the script computes them.            *)
(***************************************************************************)
EXTENDS Integers, Sequences, FiniteSets, TLC

VARIABLES
  promptReply,        \* what app.prompt will return (a title, or Null)
  clock,              \* the wall clock that new Date() reads
  inputNotes,         \* input.notes.all
  pc,                 \* position of the script
  targetTitle, now, timestampString, targetFilename, humanReadableDate,
  formattedTime, totalNotesCount, totalWordCount, totalLinkCount,
  averageWordCount, averageLinkCount, totalProofingNotesCount,
  monthlyCounts, monthlyTable, body,
  pasteboardContents, \* app.pasteboardContents
  changeFileFilename, \* output.changeFile.filename
  changeFileContent,  \* output.changeFile.content
  cancelMessage,      \* the argument of cancel(), once called
  clockReads          \* how many times new Date() was evaluated

vars == << promptReply, clock, inputNotes, pc, targetTitle, now,
           timestampString, targetFilename, humanReadableDate, formattedTime,
           totalNotesCount, totalWordCount, totalLinkCount, averageWordCount,
           averageLinkCount, totalProofingNotesCount, monthlyCounts,
           monthlyTable, body, pasteboardContents, changeFileFilename,
           changeFileContent, cancelMessage, clockReads >>

(***************************************************************************)
(* Bounds of the model.                                                    *)
(***************************************************************************)
MaxNotes == 3
MaxFileNotes == 2
MaxTextLen == 4

(***************************************************************************)
(* Characters and numbers.                                                 *)
(***************************************************************************)
DigitChars == <<"0", "1", "2", "3", "4", "5", "6", "7", "8", "9">>

\* \d
Digit == {DigitChars[i] : i \in 1..10}

\* \s (the members that the inputs of the model use)
Whitespace == {" ", "\n", "\t"}

SectionMark == "§"

\* a slip: a class that also takes a newline before the brackets
LinkBoundary_newline == {" ", ",", "\n"} \cup {"§"}

\* the character class [ ,§] of linkRegex
LinkBoundary == {" ", ",", SectionMark}

DigitVal(c) == CHOOSE d \in 0..9 : DigitChars[d + 1] = c

Max(S) == CHOOSE x \in S : \A y \in S : y <= x

\* String(n) for a non-negative integer n
RECURSIVE NumToStr(_)
NumToStr(n) ==
  IF n < 10 THEN <<DigitChars[n + 1]>>
  ELSE NumToStr(n \div 10) \o <<DigitChars[(n % 10) + 1]>>

\* c.repeat(n)
Repeat(c, n) == [i \in 1..n |-> c]

\* s.padEnd(w): never truncates
PadEnd(s, w) == IF Len(s) >= w THEN s ELSE s \o Repeat(" ", w - Len(s))

\* s.padStart(w, c)
PadStart(s, w, c) == IF Len(s) >= w THEN s ELSE Repeat(c, w - Len(s)) \o s

\* ('0' + n).slice(-2)
ZeroSlice2(n) ==
  LET s == <<"0">> \o NumToStr(n)
  IN  SubSeq(s, Len(s) - 1, Len(s))

\* parts.join(sep)
RECURSIVE Join(_, _)
Join(parts, sep) ==
  IF Len(parts) = 0 THEN <<>>
  ELSE IF Len(parts) = 1 THEN parts[1]
  ELSE parts[1] \o sep \o Join(Tail(parts), sep)

\* parts.join('')
RECURSIVE Concat(_)
Concat(parts) ==
  IF Len(parts) = 0 THEN <<>> ELSE parts[1] \o Concat(Tail(parts))

(***************************************************************************)
(* countWords: text.split(/\s+/).filter(word => word.length > 0).length    *)
(* Indices are 0-based as in the script; S[i + 1] is the i-th character.   *)
(***************************************************************************)
\* end (exclusive) of the greedy match of \s+ that starts at q
RECURSIVE WhitespaceRunEnd(_, _)
WhitespaceRunEnd(S, q) ==
  IF q < Len(S) /\ S[q + 1] \in Whitespace THEN WhitespaceRunEnd(S, q + 1) ELSE q

\* the loop of String.prototype.split with a separator that cannot match
\* the empty string: p is the start of the current piece, q the scan position
RECURSIVE SplitLoop(_, _, _, _)
SplitLoop(S, p, q, acc) ==
  IF q >= Len(S) THEN Append(acc, SubSeq(S, p + 1, Len(S)))
  ELSE IF S[q + 1] \notin Whitespace THEN SplitLoop(S, p, q + 1, acc)
  ELSE LET e == WhitespaceRunEnd(S, q)
       IN  SplitLoop(S, e, e, Append(acc, SubSeq(S, p + 1, q)))

\* text.split(/\s+/): the empty string splits into one empty piece
SplitWhitespace(text) == SplitLoop(text, 0, 0, <<>>)

\* a slip: the filter keeps the empty pieces
NonEmptyWord_keepsEmpty(word) == Len(word) >= 0

NonEmptyWord(word) == Len(word) > 0

countWords(text) == Len(SelectSeq(SplitWhitespace(text), NonEmptyWord))

(***************************************************************************)
(* countLinks: text.match(/[ ,§]\[\[/g)                                    *)
(***************************************************************************)
LinkAt(S, i) ==
  /\ i + 3 <= Len(S)
  /\ S[i + 1] \in LinkBoundary
  /\ S[i + 2] = "["
  /\ S[i + 3] = "["

\* the global match: the leftmost match from lastIndex i, then on from its end
RECURSIVE MatchLinks(_, _, _)
MatchLinks(S, i, acc) ==
  IF i + 3 > Len(S) THEN acc
  ELSE IF LinkAt(S, i) THEN MatchLinks(S, i + 3, Append(acc, SubSeq(S, i + 1, i + 3)))
  ELSE MatchLinks(S, i + 1, acc)

\* match() returns null for no match; null is modelled as the empty result
countLinks(text) ==
  LET matches == MatchLinks(text, 0, <<>>)
  IN  IF matches # <<>> THEN Len(matches) ELSE 0

(***************************************************************************)
(* countProofingNotes: note.content.includes('#proofing')                  *)
(***************************************************************************)
ProofingTag == <<"#", "p", "r", "o", "o", "f", "i", "n", "g">>

Includes(text, pat) ==
  \E i \in 0..(Len(text) - Len(pat)) : SubSeq(text, i + 1, i + Len(pat)) = pat

HasProofingTag(note) == Includes(note.content, ProofingTag)

countProofingNotes(notes) == Len(SelectSeq(notes, HasProofingTag))

(***************************************************************************)
(* countFilesByMonth                                                       *)
(***************************************************************************)
\* the n of \d{n}
TimestampDigits == 12

\* a slip: a token of exactly twelve digits, no digit before or after it
RECURSIVE MatchTimestamp_exact(_, _)
MatchTimestamp_exact(S, i) ==
  IF i + TimestampDigits > Len(S) THEN <<>>
  ELSE IF /\ \A k \in 1..TimestampDigits : S[i + k] \in Digit
          /\ (i = 0 \/ S[i] \notin Digit)
          /\ (i + TimestampDigits >= Len(S) \/ S[i + TimestampDigits + 1] \notin Digit)
       THEN SubSeq(S, i + 1, i + TimestampDigits)
  ELSE MatchTimestamp_exact(S, i + 1)

\* filename.match(/\d{12}/) scanning from index i: match[0], or the empty
\* sequence for null (a match is never empty)
RECURSIVE MatchTimestamp(_, _)
MatchTimestamp(S, i) ==
  IF i + TimestampDigits > Len(S) THEN <<>>
  ELSE IF \A k \in 1..TimestampDigits : S[i + k] \in Digit
       THEN SubSeq(S, i + 1, i + TimestampDigits)
  ELSE MatchTimestamp(S, i + 1)

\* `${dateStr.slice(0, 4)}-${dateStr.slice(4, 6)}`
MonthKey(dateStr) == SubSeq(dateStr, 1, 4) \o <<"-">> \o SubSeq(dateStr, 5, 6)

\* a slip: the key is set, not incremented
IncrementKey_set(counts, key) ==
  [k \in (DOMAIN counts) \cup {key} |-> IF k = key THEN 1 ELSE counts[k]]

\* counts[key] = (counts[key] || 0) + 1
IncrementKey(counts, key) ==
  IF key \in DOMAIN counts
  THEN [counts EXCEPT ![key] = (IF @ # 0 THEN @ ELSE 0) + 1]
  ELSE [k \in (DOMAIN counts) \cup {key} |-> IF k = key THEN 0 + 1 ELSE counts[k]]

\* the body of the forEach callback
CountNote(counts, note) ==
  LET match == MatchTimestamp(note.filename, 0)
  IN  IF match # <<>> THEN IncrementKey(counts, MonthKey(match)) ELSE counts

EmptyCounts == [k \in {} |-> 0]

\* notes.forEach from note k on
RECURSIVE CountLoop(_, _, _)
CountLoop(notes, k, counts) ==
  IF k > Len(notes) THEN counts
  ELSE CountLoop(notes, k + 1, CountNote(counts, notes[k]))

countFilesByMonth(notes) == CountLoop(notes, 1, EmptyCounts)

(***************************************************************************)
(* createMonthlyTable                                                      *)
(***************************************************************************)
months ==
  << <<"J", "a", "n">>, <<"F", "e", "b">>, <<"M", "a", "r">>,
     <<"A", "p", "r">>, <<"M", "a", "y">>, <<"J", "u", "n">>,
     <<"J", "u", "l">>, <<"A", "u", "g">>, <<"S", "e", "p">>,
     <<"O", "c", "t">>, <<"N", "o", "v">>, <<"D", "e", "c">> >>

YearHeader == <<"Y", "e", "a", "r">>

\* the order of Array.prototype.sort() without a comparator, on strings of
\* digits: by code unit, a proper prefix first
RECURSIVE LexLess(_, _)
LexLess(a, b) ==
  IF Len(a) = 0 THEN Len(b) > 0
  ELSE IF Len(b) = 0 THEN FALSE
  ELSE IF a[1] = b[1] THEN LexLess(Tail(a), Tail(b))
  ELSE DigitVal(a[1]) < DigitVal(b[1])

RECURSIVE SortStrings(_)
SortStrings(S) ==
  IF S = {} THEN <<>>
  ELSE LET least == CHOOSE x \in S : \A y \in S : x = y \/ LexLess(x, y)
       IN  <<least>> \o SortStrings(S \ {least})

\* the Set filled from key.slice(0, 4), then Array.from(years).sort()
TableYears(counts) == SortStrings({SubSeq(key, 1, 4) : key \in DOMAIN counts})

maxYearWidth(years) ==
  Max({Len(years[i]) : i \in 1..Len(years)} \cup {Len(YearHeader)})

maxMonthWidth == Max({Len(months[i]) : i \in 1..Len(months)})

\* computed by the script and never used afterwards
maxCountWidth(counts) ==
  Max({Len(NumToStr(counts[k])) : k \in DOMAIN counts} \cup {1})

TableHeader(years) ==
  <<"|", " ">> \o PadEnd(YearHeader, maxYearWidth(years)) \o <<" ", "|", " ">>
    \o Join([i \in 1..Len(months) |-> PadEnd(months[i], maxMonthWidth)],
            <<" ", "|", " ">>)
    \o <<" ", "|", "\n">>

TableSeparator(years) ==
  <<"|">> \o Repeat("-", maxYearWidth(years) + 2) \o <<"|">>
    \o Join([i \in 1..Len(months) |-> Repeat("-", maxMonthWidth + 2)], <<"|">>)
    \o <<"|", "\n">>

\* a slip: the month taken for the index
RowKey_zeroBased(year, index) == year \o <<"-">> \o PadStart(NumToStr(index), 2, "0")

\* `${year}-${String(index + 1).padStart(2, '0')}`, index from 0
RowKey(year, index) == year \o <<"-">> \o PadStart(NumToStr(index + 1), 2, "0")

\* counts[key] || 0
CountOrZero(counts, key) ==
  IF key \in DOMAIN counts /\ counts[key] # 0 THEN counts[key] ELSE 0

\* ` ${String(counts[key] || 0).padEnd(maxMonthWidth)} |`
TableCell(counts, year, index) ==
  <<" ">> \o PadEnd(NumToStr(CountOrZero(counts, RowKey(year, index))), maxMonthWidth)
    \o <<" ", "|">>

TableRow(counts, years, year) ==
  <<"|", " ">> \o PadEnd(year, maxYearWidth(years)) \o <<" ", "|">>
    \o Concat([i \in 1..Len(months) |-> TableCell(counts, year, i - 1)])
    \o <<"\n">>

createMonthlyTable(counts) ==
  LET years == TableYears(counts)
  IN  TableHeader(years) \o TableSeparator(years)
        \o Concat([i \in 1..Len(years) |-> TableRow(counts, years, years[i])])

(***************************************************************************)
(* The generated identity.  A Date d is the record of what its getters     *)
(* return: year = getFullYear(), month = getMonth() (0..11),               *)
(* date = getDate(), hours = getHours(), minutes = getMinutes().           *)
(***************************************************************************)
TimestampOf(d) ==
  Concat(<< NumToStr(d.year), ZeroSlice2(d.month + 1), ZeroSlice2(d.date),
            ZeroSlice2(d.hours), ZeroSlice2(d.minutes) >>)

\* `${timestampString} ${targetTitle}`
FilenameOf(timestamp, title) == timestamp \o <<" ">> \o title

HumanReadableDateOf(d) ==
  Join(<< ZeroSlice2(d.date), ZeroSlice2(d.month + 1), NumToStr(d.year) >>, <<"-">>)

\* a slip: noon taken for the morning
AmPm_afterNoon(hours24) == IF hours24 > 12 THEN <<"P", "M">> ELSE <<"A", "M">>

\* hours24 >= 12 ? 'PM' : 'AM'
AmPm(hours24) == IF hours24 >= 12 THEN <<"P", "M">> ELSE <<"A", "M">>

\* hours24 % 12 || 12
Hours12(hours24) == IF hours24 % 12 # 0 THEN hours24 % 12 ELSE 12

\* `${formattedHours}:${minutes} ${ampm}`
FormattedTimeOf(d) ==
  ZeroSlice2(Hours12(d.hours)) \o <<":">> \o ZeroSlice2(d.minutes) \o <<" ">>
    \o AmPm(d.hours)

(***************************************************************************)
(* The aggregates.                                                         *)
(***************************************************************************)
\* notes.reduce((acc, note) => acc + f(note.content), 0)
RECURSIVE ReduceWords(_, _, _)
ReduceWords(notes, k, acc) ==
  IF k > Len(notes) THEN acc
  ELSE ReduceWords(notes, k + 1, acc + countWords(notes[k].content))

RECURSIVE ReduceLinks(_, _, _)
ReduceLinks(notes, k, acc) ==
  IF k > Len(notes) THEN acc
  ELSE ReduceLinks(notes, k + 1, acc + countLinks(notes[k].content))

\* (total / count).toFixed(2), count > 0: the quotient to the nearest
\* hundredth, as a string.  The hundredth is computed on the exact quotient;
\* toFixed rounds the double, which differs only when the quotient lies
\* exactly halfway between two hundredths (count a multiple of 8 at least).
ToFixed2(total, count) ==
  LET h == (200 * total + count) \div (2 * count)
  IN  NumToStr(h \div 100) \o <<".">> \o PadStart(NumToStr(h % 100), 2, "0")

\* A JavaScript value that is either a number or a string
NumberValue(n) == [type |-> "number", value |-> n]
StringValue(s) == [type |-> "string", value |-> s]

\* a slip: no guard, so that 0 / 0 is formatted
AverageOf_unguarded(total, count) ==
  IF count > 0 THEN StringValue(ToFixed2(total, count))
  ELSE StringValue(<<"N", "a", "N">>)

\* count > 0 ? (total / count).toFixed(2) : 0
AverageOf(total, count) ==
  IF count > 0 THEN StringValue(ToFixed2(total, count)) ELSE NumberValue(0)

\* `${v}` in a template literal
ToTemplateString(v) == IF v.type = "number" THEN NumToStr(v.value) ELSE v.value

(***************************************************************************)
(* The template literal of body: its fixed texts and its substitutions,    *)
(* in order.  The two non-ASCII glyphs of the fixed text are written       *)
(* ">" and "*".                                                            *)
(***************************************************************************)
BodyOf(timestamp, date, time, title, notesCount, wordCount, avgWords, linkCount, avgLinks, proofingCount, table) ==
  << "\n---\nUUID:     >[[", timestamp,
     "]]\ncdate:    ", date, " ", time,
     " \ntags:     #statistics\n---\n# ", title,
     "\n\nZettelkasten Stats\n******************\nTotal Number of Notes in Zettelkasten: ",
     NumToStr(notesCount),
     "\nTotal Word Count: ", NumToStr(wordCount),
     "\nAverage Word Count: ", ToTemplateString(avgWords),
     "\nTotal Link Count: ", NumToStr(linkCount),
     "\nAverage Link Count: ", ToTemplateString(avgLinks),
     "\nTotal Notes in Proofing Oven: ", NumToStr(proofingCount),
     "\n\nMonthly Breakdown:\n", table, "\n" >>

(***************************************************************************)
(* Values of the host and of the environment.                              *)
(***************************************************************************)
\* null, as app.prompt returns it on cancel: no title is this sequence,
\* since a title holds one-character strings only
Null == <<"null">>

\* a host property the script has not assigned
NotWritten == <<"not written">>

NoMessage == "none"

CancelText == "Creation cancelled"

NoDate == [year |-> 0, month |-> 0, date |-> 0, hours |-> 0, minutes |-> 0]

(***************************************************************************)
(* The script, statement by statement.                                     *)
(***************************************************************************)
\* a slip: the reply compared with undefined, which a cancelled prompt is not
CancelRequested_undefined == targetTitle = <<"undefined">>

\* line 33: targetTitle === null
CancelRequested == targetTitle = Null

\* lines 27-32
Prompt ==
  /\ pc = "prompt"
  /\ targetTitle' = promptReply
  /\ pc' = "checkTitle"
  /\ UNCHANGED << promptReply, clock, inputNotes, now, timestampString,
                  targetFilename, humanReadableDate, formattedTime,
                  totalNotesCount, totalWordCount, totalLinkCount,
                  averageWordCount, averageLinkCount, totalProofingNotesCount,
                  monthlyCounts, monthlyTable, body, pasteboardContents,
                  changeFileFilename, changeFileContent, cancelMessage,
                  clockReads >>

\* lines 33-35: cancel() is the host's; it shows the message and ends the run
Cancel ==
  /\ pc = "checkTitle"
  /\ CancelRequested
  /\ cancelMessage' = CancelText
  /\ pc' = "cancelled"
  /\ UNCHANGED << promptReply, clock, inputNotes, targetTitle, now,
                  timestampString, targetFilename, humanReadableDate,
                  formattedTime, totalNotesCount, totalWordCount,
                  totalLinkCount, averageWordCount, averageLinkCount,
                  totalProofingNotesCount, monthlyCounts, monthlyTable, body,
                  pasteboardContents, changeFileFilename, changeFileContent,
                  clockReads >>

\* lines 33, 38-68
GenerateIdentity ==
  /\ pc = "checkTitle"
  /\ ~CancelRequested
  /\ now' = clock
  /\ clockReads' = clockReads + 1
  /\ timestampString' = TimestampOf(now')
  /\ targetFilename' = FilenameOf(timestampString', targetTitle)
  /\ humanReadableDate' = HumanReadableDateOf(now')
  /\ formattedTime' = FormattedTimeOf(now')
  /\ pc' = "totals"
  /\ UNCHANGED << promptReply, clock, inputNotes, targetTitle, totalNotesCount,
                  totalWordCount, totalLinkCount, averageWordCount,
                  averageLinkCount, totalProofingNotesCount, monthlyCounts,
                  monthlyTable, body, pasteboardContents, changeFileFilename,
                  changeFileContent, cancelMessage >>

\* lines 72, 144-156
ComputeTotals ==
  /\ pc = "totals"
  /\ totalNotesCount' = Len(inputNotes)
  /\ totalWordCount' = ReduceWords(inputNotes, 1, 0)
  /\ totalLinkCount' = ReduceLinks(inputNotes, 1, 0)
  /\ averageWordCount' = AverageOf(totalWordCount', totalNotesCount')
  /\ averageLinkCount' = AverageOf(totalLinkCount', totalNotesCount')
  /\ totalProofingNotesCount' = countProofingNotes(inputNotes)
  /\ pc' = "monthly"
  /\ UNCHANGED << promptReply, clock, inputNotes, targetTitle, now,
                  timestampString, targetFilename, humanReadableDate,
                  formattedTime, monthlyCounts, monthlyTable, body,
                  pasteboardContents, changeFileFilename, changeFileContent,
                  cancelMessage, clockReads >>

\* line 159
CountByMonth ==
  /\ pc = "monthly"
  /\ monthlyCounts' = countFilesByMonth(inputNotes)
  /\ pc' = "table"
  /\ UNCHANGED << promptReply, clock, inputNotes, targetTitle, now,
                  timestampString, targetFilename, humanReadableDate,
                  formattedTime, totalNotesCount, totalWordCount,
                  totalLinkCount, averageWordCount, averageLinkCount,
                  totalProofingNotesCount, monthlyTable, body,
                  pasteboardContents, changeFileFilename, changeFileContent,
                  cancelMessage, clockReads >>

\* line 162
RenderTable ==
  /\ pc = "table"
  /\ monthlyTable' = createMonthlyTable(monthlyCounts)
  /\ pc' = "compose"
  /\ UNCHANGED << promptReply, clock, inputNotes, targetTitle, now,
                  timestampString, targetFilename, humanReadableDate,
                  formattedTime, totalNotesCount, totalWordCount,
                  totalLinkCount, averageWordCount, averageLinkCount,
                  totalProofingNotesCount, monthlyCounts, body,
                  pasteboardContents, changeFileFilename, changeFileContent,
                  cancelMessage, clockReads >>

\* lines 165-184
Compose ==
  /\ pc = "compose"
  /\ body' = BodyOf(timestampString, humanReadableDate, formattedTime,
                    targetTitle, totalNotesCount, totalWordCount,
                    averageWordCount, totalLinkCount, averageLinkCount,
                    totalProofingNotesCount, monthlyTable)
  /\ pc' = "clipboard"
  /\ UNCHANGED << promptReply, clock, inputNotes, targetTitle, now,
                  timestampString, targetFilename, humanReadableDate,
                  formattedTime, totalNotesCount, totalWordCount,
                  totalLinkCount, averageWordCount, averageLinkCount,
                  totalProofingNotesCount, monthlyCounts, monthlyTable,
                  pasteboardContents, changeFileFilename, changeFileContent,
                  cancelMessage, clockReads >>

\* a slip: only the table is copied
CopyToClipboard_tableOnly ==
  /\ pc = "clipboard"
  /\ pasteboardContents' = monthlyTable
  /\ pc' = "filename"
  /\ UNCHANGED << promptReply, clock, inputNotes, targetTitle, now,
                  timestampString, targetFilename, humanReadableDate,
                  formattedTime, totalNotesCount, totalWordCount,
                  totalLinkCount, averageWordCount, averageLinkCount,
                  totalProofingNotesCount, monthlyCounts, monthlyTable, body,
                  changeFileFilename, changeFileContent, cancelMessage,
                  clockReads >>

\* line 187
CopyToClipboard ==
  /\ pc = "clipboard"
  /\ pasteboardContents' = body
  /\ pc' = "filename"
  /\ UNCHANGED << promptReply, clock, inputNotes, targetTitle, now,
                  timestampString, targetFilename, humanReadableDate,
                  formattedTime, totalNotesCount, totalWordCount,
                  totalLinkCount, averageWordCount, averageLinkCount,
                  totalProofingNotesCount, monthlyCounts, monthlyTable, body,
                  changeFileFilename, changeFileContent, cancelMessage,
                  clockReads >>

\* line 190
SetFilename ==
  /\ pc = "filename"
  /\ changeFileFilename' = targetFilename
  /\ pc' = "content"
  /\ UNCHANGED << promptReply, clock, inputNotes, targetTitle, now,
                  timestampString, targetFilename, humanReadableDate,
                  formattedTime, totalNotesCount, totalWordCount,
                  totalLinkCount, averageWordCount, averageLinkCount,
                  totalProofingNotesCount, monthlyCounts, monthlyTable, body,
                  pasteboardContents, changeFileContent, cancelMessage,
                  clockReads >>

\* line 191
SetContent ==
  /\ pc = "content"
  /\ changeFileContent' = body
  /\ pc' = "done"
  /\ UNCHANGED << promptReply, clock, inputNotes, targetTitle, now,
                  timestampString, targetFilename, humanReadableDate,
                  formattedTime, totalNotesCount, totalWordCount,
                  totalLinkCount, averageWordCount, averageLinkCount,
                  totalProofingNotesCount, monthlyCounts, monthlyTable, body,
                  pasteboardContents, changeFileFilename, cancelMessage,
                  clockReads >>

Next ==
  \/ Prompt
  \/ Cancel
  \/ GenerateIdentity
  \/ ComputeTotals
  \/ CountByMonth
  \/ RenderTable
  \/ Compose
  \/ CopyToClipboard
  \/ SetFilename
  \/ SetContent

(***************************************************************************)
(* Inputs: what the host hands to the script.                              *)
(***************************************************************************)
SeqsUpTo(S, n) == UNION {[1..k -> S] : k \in 0..n}

\* the string of the decimal digits ns
Ds(ns) == [i \in 1..Len(ns) |-> DigitChars[ns[i] + 1]]

Note(filename, content) == [filename |-> filename, content |-> content]

TitleStats == <<"S", "t", "a", "t", "s">>

\* app.prompt returns the text typed (possibly empty) or null
Replies == {Null, <<>>, TitleStats}

ClockNoon == [year |-> 2024, month |-> 2, date |-> 15, hours |-> 12, minutes |-> 30]
ClockNight == [year |-> 2026, month |-> 10, date |-> 3, hours |-> 0, minutes |-> 5]

Clocks == {ClockNoon, ClockNight}

\* every hour of the day, one- and two-digit months, days and minutes
ClockSamples ==
  [year : {2024, 2026}, month : {0, 7, 9, 11}, date : {1, 9, 10, 31},
   hours : 0..23, minutes : {0, 9, 10, 59}]

StampA == Ds(<<2, 0, 2, 4, 0, 1, 0, 1, 0, 9, 0, 0>>)
StampB == Ds(<<2, 0, 2, 4, 0, 1, 0, 2, 1, 0, 0, 0>>)
StampC == Ds(<<2, 0, 2, 2, 1, 2, 0, 1, 1, 2, 0, 0>>)
\* twelve digits whose fifth and sixth are no month
StampM13 == Ds(<<2, 0, 2, 4, 1, 3, 0, 1, 1, 2, 0, 0>>)

TextHello ==
  <<"h", "i", " ", "y", "o", "u", " ">> \o ProofingTag
TextABCD == <<"a", " ", "b", " ", "c", " ", "d">>
TextLink == <<",", " ", "[", "[", "x", "]", "]">>
TextTwoLinks ==
  <<"s", "e", "e", " ", ",", " ", "[", "[", "n", "]", "]", " ", "&", " ",
    SectionMark, "[", "[", "o", "]", "]">>

NotePool ==
  { Note(StampA \o <<" ", "A">>, TextHello),
    Note(StampB \o <<" ", "B">>, TextABCD),
    Note(<<"n", "o", " ", "s", "t", "a", "m", "p">>, TextLink),
    Note(<<"x">> \o StampC \o <<"3">>, TextTwoLinks),
    Note(StampM13, <<>>) }

\* file names around the twelve-digit token: alone, inside a longer run of
\* digits, after other text, after a shorter run, and not there at all
FilenameSamples ==
  { pre \o stamp \o suf : pre \in {<<>>, <<"x">>},
                          stamp \in {StampA, StampC, StampM13},
                          suf \in {<<>>, <<"7">>, <<" ", "N">>} }
    \cup { SubSeq(StampA, 1, 11),
           SubSeq(StampA, 1, 6) \o <<" ">> \o SubSeq(StampA, 7, 12),
           SubSeq(StampC, 1, 11) \o <<" ">> \o StampA,
           <<"n", "o">> }

FileNotePool == {Note(f, TextLink \o <<" ">> \o ProofingTag) : f \in FilenameSamples}

WordAlphabet == {"a", "b", " ", "\n"}

WordTexts ==
  SeqsUpTo(WordAlphabet, MaxTextLen)
    \cup { <<"a", " ", " ", "b", " ", " ", " ", "c">>,
           <<"\t", " ", "a", "\t", "\n", "b", " ">>,
           <<" ", "\t", "\n", " ", " ", "\t">> }

LinkAlphabet == {" ", ",", SectionMark, "[", "a"}

LinkTexts ==
  SeqsUpTo(LinkAlphabet, MaxTextLen)
    \cup { TextTwoLinks,
           <<"[", "[", "l", "]", "]", " ", "a">>,
           <<"\n", "[", "[", "l", "]", "]">>,
           <<" ", "[", "[", ",", "[", "[">>,
           <<" ", "[", "[", "[", "[", "a">>,
           <<",", " ", "[", "[", SectionMark, "[", "[", "[">>,
           <<"n", "o", " ", "l", "i", "n", "k", "s">> }

\* a second note, or none
Companions == {<<>>, <<Note(StampB, TextHello)>>}

Key01 == Ds(<<2, 0, 2, 3>>) \o <<"-">> \o Ds(<<0, 1>>)
Key12 == Ds(<<2, 0, 2, 4>>) \o <<"-">> \o Ds(<<1, 2>>)
Key06 == Ds(<<2, 0, 2, 1>>) \o <<"-">> \o Ds(<<0, 6>>)
Key13 == Ds(<<2, 0, 2, 4>>) \o <<"-">> \o Ds(<<1, 3>>)

\* mappings that countFilesByMonth returns: some keys, each counted at least
\* once, up to counts of four digits
CountsSamples ==
  UNION { [K -> {1, 5, 12, 1000}] : K \in SUBSET {Key01, Key12, Key06, Key13} }

(***************************************************************************)
(* Initial states.                                                         *)
(***************************************************************************)
Undefined == <<"undefined">>

\* before the first statement: nothing computed, nothing written
ScriptStart ==
  /\ targetTitle = Undefined
  /\ now = NoDate
  /\ timestampString = Undefined
  /\ targetFilename = Undefined
  /\ humanReadableDate = Undefined
  /\ formattedTime = Undefined
  /\ totalNotesCount = 0
  /\ totalWordCount = 0
  /\ totalLinkCount = 0
  /\ averageWordCount = NumberValue(0)
  /\ averageLinkCount = NumberValue(0)
  /\ totalProofingNotesCount = 0
  /\ monthlyTable = Undefined
  /\ body = Undefined
  /\ pasteboardContents = NotWritten
  /\ changeFileFilename = NotWritten
  /\ changeFileContent = NotWritten
  /\ cancelMessage = NoMessage
  /\ clockReads = 0

Init ==
  /\ pc = "prompt"
  /\ promptReply \in Replies
  /\ clock \in Clocks
  /\ inputNotes \in SeqsUpTo(NotePool, MaxNotes)
  /\ monthlyCounts = EmptyCounts
  /\ ScriptStart

\* the run at every sampled moment, on an empty collection
InitClock ==
  /\ pc = "prompt"
  /\ promptReply \in Replies
  /\ clock \in ClockSamples
  /\ inputNotes = <<>>
  /\ monthlyCounts = EmptyCounts
  /\ ScriptStart

\* the run on collections of notes with the sampled file names
InitFiles ==
  /\ pc = "prompt"
  /\ promptReply \in {Null, TitleStats}
  /\ clock = ClockNoon
  /\ inputNotes \in SeqsUpTo(FileNotePool, MaxFileNotes)
  /\ monthlyCounts = EmptyCounts
  /\ ScriptStart

\* the run on a note with any short text over the word alphabet
InitWords ==
  /\ pc = "prompt"
  /\ promptReply \in {Null, TitleStats}
  /\ clock = ClockNoon
  /\ inputNotes \in {<<Note(StampA, t)>> \o c : t \in WordTexts, c \in Companions}
  /\ monthlyCounts = EmptyCounts
  /\ ScriptStart

\* the run on a note with any short text over the link alphabet
InitLinks ==
  /\ pc = "prompt"
  /\ promptReply \in {Null, TitleStats}
  /\ clock = ClockNoon
  /\ inputNotes \in {<<Note(StampA, t)>> \o c : t \in LinkTexts, c \in Companions}
  /\ monthlyCounts = EmptyCounts
  /\ ScriptStart

\* createMonthlyTable on any sampled mapping: the script at line 162
InitTable ==
  /\ pc = "table"
  /\ promptReply = TitleStats
  /\ clock = ClockNoon
  /\ inputNotes = <<>>
  /\ monthlyCounts \in CountsSamples
  /\ ScriptStart

Spec == Init /\ [][Next]_vars
SpecClock == InitClock /\ [][Next]_vars
SpecFiles == InitFiles /\ [][Next]_vars
SpecWords == InitWords /\ [][Next]_vars
SpecLinks == InitLinks /\ [][Next]_vars
SpecTable == InitTable /\ [][RenderTable]_vars

(***************************************************************************)
(* What the properties are stated with: the rendered text read back, and   *)
(* the counts defined by what they count rather than by how the script     *)
(* computes them.                                                          *)
(***************************************************************************)
AfterTotals == {"monthly", "table", "compose", "clipboard", "filename", "content", "done"}
AfterTable == {"compose", "clipboard", "filename", "content", "done"}

\* no statement is left to execute: the script ran to its end, or cancel()
\* ended it
RunEnded == pc \in {"done", "cancelled"}

RECURSIVE SumSeq(_)
SumSeq(s) == IF Len(s) = 0 THEN 0 ELSE s[1] + SumSeq(Tail(s))

RECURSIVE SumValues(_, _)
SumValues(f, K) ==
  IF K = {} THEN 0
  ELSE LET k == CHOOSE x \in K : TRUE IN f[k] + SumValues(f, K \ {k})

\* the pieces of s between the occurrences of the character c
PiecesOf(s, c) ==
  LET at == {i \in 1..Len(s) : s[i] = c}
      Nth(k) == IF k = 0 THEN 0
                ELSE IF k > Cardinality(at) THEN Len(s) + 1
                ELSE CHOOSE q \in at : Cardinality({r \in at : r < q}) = k - 1
  IN  [k \in 1..(Cardinality(at) + 1) |-> SubSeq(s, Nth(k - 1) + 1, Nth(k) - 1)]

\* the lines of a text that ends each line with a newline
LinesOf(text) ==
  LET p == PiecesOf(text, "\n") IN SubSeq(p, 1, Len(p) - 1)

\* the cells of a table line "|c1|c2|...|cn|"
CellsOf(line) ==
  LET p == PiecesOf(line, "|") IN SubSeq(p, 2, Len(p) - 1)

RECURSIVE StripLeft(_)
StripLeft(s) == IF Len(s) > 0 /\ s[1] = " " THEN StripLeft(Tail(s)) ELSE s

RECURSIVE StripRight(_)
StripRight(s) ==
  IF Len(s) > 0 /\ s[Len(s)] = " " THEN StripRight(SubSeq(s, 1, Len(s) - 1)) ELSE s

Strip(s) == StripLeft(StripRight(s))

IsNumeral(s) == Len(s) > 0 /\ \A i \in 1..Len(s) : s[i] \in Digit

RECURSIVE StrToNum(_)
StrToNum(s) ==
  IF Len(s) = 0 THEN 0
  ELSE 10 * StrToNum(SubSeq(s, 1, Len(s) - 1)) + DigitVal(s[Len(s)])

TwoDigits(m) == <<DigitChars[(m \div 10) + 1], DigitChars[(m % 10) + 1]>>

\* the year rows of a rendered table, as their cells
YearRows(table) ==
  LET L == LinesOf(table) IN [i \in 1..(Len(L) - 2) |-> CellsOf(L[i + 2])]

YearsOfKeys(counts) == {SubSeq(k, 1, 4) : k \in DOMAIN counts}

\* the sum of all month cells of all year rows
SumOfCells(table) ==
  LET rows == YearRows(table)
  IN  SumSeq([i \in 1..Len(rows) |->
               SumSeq([m \in 1..(Len(rows[i]) - 1) |-> StrToNum(Strip(rows[i][m + 1]))])])

\* the places (0-based) where twelve digits in a row begin
RunStarts(S) ==
  {i \in 0..(Len(S) - 12) : \A k \in 1..12 : S[i + k] \in Digit}

HasTimestamp(note) == RunStarts(note.filename) # {}

\* the twelve digits at the first such place
FirstRun(note) ==
  LET i == CHOOSE x \in RunStarts(note.filename) :
             \A y \in RunStarts(note.filename) : x <= y
  IN  SubSeq(note.filename, i + 1, i + 12)

KeyOfNote(note) ==
  LET r == FirstRun(note) IN <<r[1], r[2], r[3], r[4], "-", r[5], r[6]>>

MonthInYear(note) == StrToNum(SubSeq(FirstRun(note), 5, 6)) \in 1..12

Stamped(notes) == {i \in 1..Len(notes) : HasTimestamp(notes[i])}

\* the number of maximal runs of non-whitespace characters
WordRuns(text) ==
  Cardinality({i \in 1..Len(text) :
                 /\ text[i] \notin Whitespace
                 /\ (i = 1 \/ text[i - 1] \in Whitespace)})

\* the number of places where a boundary character is followed by "[["
LinkOccurrences(text) ==
  Cardinality({i \in 1..(Len(text) - 2) :
                 /\ text[i] \in {" ", ",", "§"}
                 /\ text[i + 1] = "["
                 /\ text[i + 2] = "["})

NoneWritten ==
  /\ pasteboardContents = NotWritten
  /\ changeFileFilename = NotWritten
  /\ changeFileContent = NotWritten

AllWritten ==
  /\ pasteboardContents # NotWritten
  /\ changeFileFilename # NotWritten
  /\ changeFileContent # NotWritten

\* the substitutions of the body, by their place in the template
BodyTimestamp(b) == b[2]
BodyDate(b) == b[4]
BodyTime(b) == b[6]
BodyTitle(b) == b[8]
BodyAverageWords(b) == b[14]
BodyAverageLinks(b) == b[18]
BodyTable(b) == b[22]

(***************************************************************************)
(* Cancellation and output.                                                *)
(***************************************************************************)
\* C1: when the prompt returns null the run aborts with the message
\* "Creation cancelled"; from then on neither the clipboard nor the output
\* file's filename or content is written, and the run goes no further; a run
\* that has ended without all of its output is a cancelled run.
C1_CancelWritesNothing ==
  /\ (pc # "prompt" /\ targetTitle = Null) =>
        (pc \in {"checkTitle", "cancelled"} /\ NoneWritten)
  /\ pc = "cancelled" =>
        (cancelMessage = CancelText /\ targetTitle = Null /\ NoneWritten /\ RunEnded)
  /\ cancelMessage # NoMessage => pc = "cancelled"
  /\ (RunEnded /\ ~AllWritten) => pc = "cancelled"

C1_Witness == pc = "cancelled" /\ inputNotes # <<>> /\ cancelMessage = CancelText

\* C6: a run that is not cancelled ends with the output filename, the output
\* content and the clipboard all set, the clipboard holding the same document
\* as the output content; no ended run has written only some of them.
C6_AllOrNothing ==
  /\ pc = "done" =>
        /\ AllWritten
        /\ pasteboardContents = changeFileContent
        /\ changeFileContent = body
        /\ changeFileFilename = targetFilename
  /\ RunEnded => (AllWritten \/ NoneWritten)
  /\ (RunEnded /\ targetTitle # Null) => pc = "done"

C6_Witness ==
  /\ pc = "done"
  /\ inputNotes # <<>>
  /\ pasteboardContents = changeFileContent
  /\ BodyTitle(changeFileContent) = TitleStats

(***************************************************************************)
(* Averages.                                                               *)
(***************************************************************************)
\* v is the string "i.ff" of the hundredth nearest to total / count
IsQuotient(v, total, count) ==
  /\ v.type = "string"
  /\ LET s == v.value
     IN  /\ Len(s) >= 4
         /\ s[Len(s) - 2] = "."
         /\ IsNumeral(SubSeq(s, 1, Len(s) - 3))
         /\ IsNumeral(SubSeq(s, Len(s) - 1, Len(s)))
         /\ LET h == 100 * StrToNum(SubSeq(s, 1, Len(s) - 3))
                       + StrToNum(SubSeq(s, Len(s) - 1, Len(s)))
                d == 100 * total - h * count
            IN  2 * (IF d < 0 THEN -d ELSE d) <= count

IsLiteralZero(v) == v.type = "number" /\ v.value = 0

\* C7: on an empty collection the run does not fail: both averages are the
\* number 0, the four totals are 0, and the complete document is produced;
\* on a non-empty collection each average is its total divided by the number
\* of notes (as the script renders it, to two decimals).
C7_Averages ==
  /\ (pc \in AfterTotals /\ Len(inputNotes) = 0) =>
        /\ IsLiteralZero(averageWordCount)
        /\ IsLiteralZero(averageLinkCount)
        /\ totalNotesCount = 0 /\ totalWordCount = 0
        /\ totalLinkCount = 0 /\ totalProofingNotesCount = 0
  /\ (pc \in AfterTotals /\ Len(inputNotes) > 0) =>
        /\ totalNotesCount = Len(inputNotes)
        /\ IsQuotient(averageWordCount, totalWordCount, totalNotesCount)
        /\ IsQuotient(averageLinkCount, totalLinkCount, totalNotesCount)
  /\ (RunEnded /\ Len(inputNotes) = 0 /\ targetTitle # Null) =>
        /\ pc = "done"
        /\ AllWritten
        /\ BodyAverageWords(changeFileContent) = <<"0">>
        /\ BodyAverageLinks(changeFileContent) = <<"0">>

C7_Witness ==
  /\ pc = "done"
  /\ inputNotes = <<>>
  /\ IsLiteralZero(averageWordCount)
  /\ changeFileContent = body

(***************************************************************************)
(* The generated identity.                                                 *)
(***************************************************************************)
\* the hour of the day that a 12-hour clock time "hh:mm AM|PM" denotes
Hour24Of(time) ==
  (StrToNum(SubSeq(time, 1, 2)) % 12) + (IF SubSeq(time, 7, 8) = <<"P", "M">> THEN 12 ELSE 0)

\* C5: in a run that is not cancelled the clock is read once, and every
\* string derived from it agrees with it: the 12 digits of the UUID line are
\* the first 12 characters of the output filename; the cdate date DD-MM-YYYY
\* and time HH:MM AM|PM denote the year, month, day, hour and minute of those
\* digits; the output filename is the timestamp, a space and the title, for
\* every title returned, the empty one included.
C5_TimestampsAgree ==
  /\ clockReads <= 1
  /\ pc = "done" =>
        LET ts == BodyTimestamp(changeFileContent)
            date == BodyDate(changeFileContent)
            time == BodyTime(changeFileContent)
        IN  /\ clockReads = 1
            /\ Len(ts) = 12 /\ IsNumeral(ts)
            /\ ts = SubSeq(changeFileFilename, 1, 12)
            /\ changeFileFilename = ts \o <<" ">> \o targetTitle
            /\ StrToNum(SubSeq(ts, 1, 4)) = clock.year
            /\ StrToNum(SubSeq(ts, 5, 6)) = clock.month + 1
            /\ StrToNum(SubSeq(ts, 7, 8)) = clock.date
            /\ StrToNum(SubSeq(ts, 9, 10)) = clock.hours
            /\ StrToNum(SubSeq(ts, 11, 12)) = clock.minutes
            /\ Len(date) = 10 /\ date[3] = "-" /\ date[6] = "-"
            /\ SubSeq(date, 1, 2) = SubSeq(ts, 7, 8)
            /\ SubSeq(date, 4, 5) = SubSeq(ts, 5, 6)
            /\ SubSeq(date, 7, 10) = SubSeq(ts, 1, 4)
            /\ Len(time) = 8 /\ time[3] = ":" /\ time[6] = " "
            /\ SubSeq(time, 7, 8) \in {<<"A", "M">>, <<"P", "M">>}
            /\ StrToNum(SubSeq(time, 1, 2)) \in 1..12
            /\ Hour24Of(time) = StrToNum(SubSeq(ts, 9, 10))
            /\ SubSeq(time, 4, 5) = SubSeq(ts, 11, 12)

\* a run at noon with the empty title
C5_Witness ==
  /\ pc = "done"
  /\ targetTitle = <<>>
  /\ clock.hours = 12
  /\ Len(changeFileFilename) = 13
  /\ BodyTime(changeFileContent) = <<"1", "2", ":", "0", "9", " ", "P", "M">>

(***************************************************************************)
(* The word and link counters.                                             *)
(***************************************************************************)
AllWhitespace(text) == \A i \in 1..Len(text) : text[i] \in Whitespace

\* C9: the word counter returns the number of maximal runs of
\* non-whitespace characters, 0 for the empty and for whitespace-only text;
\* the report's total word count is the sum of it over all notes.
C9_WordCount ==
  /\ \A i \in 1..Len(inputNotes) :
        LET text == inputNotes[i].content
        IN  /\ countWords(text) = WordRuns(text)
            /\ AllWhitespace(text) => countWords(text) = 0
  /\ pc \in AfterTotals =>
        totalWordCount =
          SumSeq([i \in 1..Len(inputNotes) |-> WordRuns(inputNotes[i].content)])

\* "a  b   c" counts 3
C9_Witness ==
  /\ pc = "done"
  /\ Len(inputNotes) = 1
  /\ inputNotes[1].content = <<"a", " ", " ", "b", " ", " ", " ", "c">>
  /\ totalWordCount = 3

\* C8: the link counter returns the number of places where a space, comma
\* or section mark is followed by "[[" (such places cannot overlap), 0 when
\* there is none; "[[" at the start of the text or after any other character
\* counts nothing; the report's total link count is the sum over all notes.
C8_LinkCount ==
  /\ \A i \in 1..Len(inputNotes) :
        LET text == inputNotes[i].content
        IN  countLinks(text) = LinkOccurrences(text)
  /\ pc \in AfterTotals =>
        totalLinkCount =
          SumSeq([i \in 1..Len(inputNotes) |-> LinkOccurrences(inputNotes[i].content)])

\* "[[" after a newline, and nothing else, counts 0
C8_Witness ==
  /\ pc = "done"
  /\ Len(inputNotes) = 1
  /\ inputNotes[1].content = <<"\n", "[", "[", "l", "]", "]">>
  /\ totalLinkCount = 0

(***************************************************************************)
(* The monthly classifier.                                                 *)
(***************************************************************************)
\* the mapping that counts, for each key YYYY-MM, the notes whose first
\* twelve digits in a row give that key
CountsByFirstRun(notes) ==
  [key \in {KeyOfNote(notes[i]) : i \in Stamped(notes)} |->
     Cardinality({i \in Stamped(notes) : KeyOfNote(notes[i]) = key})]

\* C3: the classifier counts each note once: a note whose filename holds
\* twelve digits in a row adds one to the key "YYYY-MM" made of the first
\* such twelve digits (also inside a longer run of digits), whatever the
\* month and year are; a note without them adds no key, and still counts in
\* the total notes, words, links and in the proofing count.
C3_MonthlyClassifier ==
  pc \in AfterTable =>
    /\ monthlyCounts = CountsByFirstRun(inputNotes)
    /\ SumValues(monthlyCounts, DOMAIN monthlyCounts) = Cardinality(Stamped(inputNotes))
    /\ totalNotesCount = Len(inputNotes)
    /\ totalWordCount =
         SumSeq([i \in 1..Len(inputNotes) |-> WordRuns(inputNotes[i].content)])
    /\ totalLinkCount =
         SumSeq([i \in 1..Len(inputNotes) |-> LinkOccurrences(inputNotes[i].content)])
    /\ totalProofingNotesCount =
         Cardinality({i \in 1..Len(inputNotes) :
                        Includes(inputNotes[i].content, ProofingTag)})

\* a note with a run of fourteen digits beside a note without a timestamp
C3_Witness ==
  /\ pc = "done"
  /\ Len(inputNotes) = 2
  /\ inputNotes[1].filename = <<"x">> \o StampC \o <<"7">>
  /\ inputNotes[2].filename = <<"n", "o">>
  /\ DOMAIN monthlyCounts = {<<"2", "0", "2", "2", "-", "1", "2">>}
  /\ totalNotesCount = 2
  /\ totalProofingNotesCount = 2

(***************************************************************************)
(* The table renderer.                                                     *)
(***************************************************************************)
\* C4: the table has one row for each year that is the prefix of a key, in
\* ascending lexical order, and none for a year in between that no key has;
\* each row has 12 month cells; the cell of year and month m shows the count
\* of the key "year-mm" when the mapping has it and 0 otherwise; the empty
\* mapping gives the header and the separator only.
C4_TableRows ==
  pc = "compose" =>
    LET L == LinesOf(monthlyTable)
        rows == YearRows(monthlyTable)
        Year(i) == Strip(rows[i][1])
    IN  /\ Len(L) = 2 + Cardinality(YearsOfKeys(monthlyCounts))
        /\ {Year(i) : i \in 1..Len(rows)} = YearsOfKeys(monthlyCounts)
        /\ \A i, j \in 1..Len(rows) : i < j => LexLess(Year(i), Year(j))
        /\ [m \in 1..12 |-> Strip(CellsOf(L[1])[m + 1])] = months
        /\ \A i \in 1..Len(rows) :
              /\ Len(rows[i]) = 13
              /\ \A m \in 1..12 :
                    LET key == Year(i) \o <<"-">> \o TwoDigits(m)
                        cell == Strip(rows[i][m + 1])
                    IN  /\ IsNumeral(cell)
                        /\ StrToNum(cell) =
                             (IF key \in DOMAIN monthlyCounts THEN monthlyCounts[key] ELSE 0)
        /\ (DOMAIN monthlyCounts = {}) => Len(L) = 2

\* rows for 2021 and 2023 and none for 2022
C4_Witness ==
  /\ pc = "compose"
  /\ DOMAIN monthlyCounts = {Key06, Key01}
  /\ monthlyCounts[Key01] = 5
  /\ Len(LinesOf(monthlyTable)) = 4

\* C2: every month column has one width, the larger of 3 and the length of
\* the longest count of the mapping: every month cell is padded to it, and
\* the header, the separator and all year rows have the same length.
C2_UniformWidth ==
  pc = "compose" =>
    LET L == LinesOf(monthlyTable)
        width == Max({3} \cup {Len(NumToStr(monthlyCounts[k])) : k \in DOMAIN monthlyCounts})
    IN  /\ \A i, j \in 1..Len(L) : Len(L[i]) = Len(L[j])
        /\ \A i \in 1..Len(L) : \A m \in 1..12 :
              Len(CellsOf(L[i])[m + 1]) = width + 2

(***************************************************************************)
(* Classifier and table together.                                          *)
(***************************************************************************)
\* C10 as stated: the month cells of the table add up to the values of the
\* mapping, which add up to the number of notes with a timestamp (at most
\* the number of notes): every such note is in a cell, whatever its month.
C10_Conservation ==
  pc \in AfterTable =>
    /\ SumOfCells(monthlyTable) = SumValues(monthlyCounts, DOMAIN monthlyCounts)
    /\ SumValues(monthlyCounts, DOMAIN monthlyCounts) = Cardinality(Stamped(inputNotes))
    /\ Cardinality(Stamped(inputNotes)) <= totalNotesCount

\* C10 amended: the values of the mapping add up to the number of notes with
\* a timestamp (at most the number of notes); the month cells add up to the
\* number of those whose month digits are 01..12, each cell counting the
\* notes of its year and month; the others are in no cell.
C10_ConservationInYear ==
  pc \in AfterTable =>
    LET rows == YearRows(monthlyTable)
        inYear == {i \in Stamped(inputNotes) : MonthInYear(inputNotes[i])}
    IN  /\ SumValues(monthlyCounts, DOMAIN monthlyCounts) = Cardinality(Stamped(inputNotes))
        /\ Cardinality(Stamped(inputNotes)) <= totalNotesCount
        /\ SumOfCells(monthlyTable) = Cardinality(inYear)
        /\ \A r \in 1..Len(rows) : \A m \in 1..12 :
              StrToNum(Strip(rows[r][m + 1])) =
                Cardinality({i \in inYear :
                  KeyOfNote(inputNotes[i]) = Strip(rows[r][1]) \o <<"-">> \o TwoDigits(m)})
        /\ \A i \in inYear : \E r \in 1..Len(rows) :
              Strip(rows[r][1]) = SubSeq(FirstRun(inputNotes[i]), 1, 4)

\* a note of month 13 beside a note of January
C10_Witness ==
  /\ pc = "done"
  /\ Len(inputNotes) = 2
  /\ inputNotes[1].filename = StampM13
  /\ inputNotes[2].filename = StampA \o <<" ", "A">>
  /\ SumOfCells(monthlyTable) = 1
  /\ SumValues(monthlyCounts, DOMAIN monthlyCounts) = 2

====
